---- MODULE Spec2Model ----
(***************************************************************************)
(* Model of konek/rest (src/router.go lines 221-548, src/error.go): the    *)
(* dispatch adapter `handler`, the body decoder `Parse`, the format        *)
(* negotiator `getFormat` and the two writers `output` and                 *)
(* `outputContentType`.                                                    *)
(*                                                                         *)
(* Two specifications share the module:                                    *)
(*   Spec       one request through the dispatch adapter                   *)
(*   SpecParse  one call of Parse on a request and a decode target         *)
(***************************************************************************)
EXTENDS Integers, Sequences, FiniteSets

\* ------------------------------------------------------------------ bounds
\* Longest list of values held under one request header.
MaxHeaderVals == 2

\* --------------------------------------------------------------- constants
\* const ( formatJSON = iota; formatXML; formatFORM )
formatJSON == 0
formatXML == 1
formatFORM == 2

\* Header values a client may send: the three recognised MIME strings and
\* one that differs from a recognised one only in case.
HeaderValues ==
  {"application/json", "application/xml",
   "application/x-www-form-urlencoded", "Application/JSON"}

RECURSIVE SeqsUpTo(_, _)
SeqsUpTo(S, n) ==
  IF n = 0 THEN {<<>>}
  ELSE LET shorter == SeqsUpTo(S, n - 1)
       IN shorter \cup {Append(s, x) : s \in {t \in shorter : Len(t) = n - 1}, x \in S}

\* r.Header[field]: ok says whether the key is in the map, vals is the slice.
Headers ==
  {[ok |-> FALSE, vals |-> <<>>]}
    \cup {[ok |-> TRUE, vals |-> s] : s \in SeqsUpTo(HeaderValues, MaxHeaderVals)}

NoHeader == [ok |-> FALSE, vals |-> <<>>]

\* ----------------------------------------------------------- getFormat
\* The loop `for _, format := range header` of getFormat: the first value
\* equal to one of the three strings decides; none gives (formatJSON, false).
RECURSIVE getFormatRange(_)
getFormatRange(header) ==
  IF header = <<>> THEN [format |-> formatJSON, found |-> FALSE]
  ELSE IF Head(header) = "application/json"
         THEN [format |-> formatJSON, found |-> TRUE]
  ELSE IF Head(header) = "application/xml"
         THEN [format |-> formatXML, found |-> TRUE]
  ELSE IF Head(header) = "application/x-www-form-urlencoded"
         THEN [format |-> formatFORM, found |-> TRUE]
  ELSE getFormatRange(Tail(header))

getFormat(r, field) ==
  IF r[field].ok THEN getFormatRange(r[field].vals)
  ELSE [format |-> formatJSON, found |-> FALSE]

\* ----------------------------------------------------------- errors
\* error.go: Error500{Message}, StatusCode() = 500.
Error500(message) == [type |-> "Error500", Message |-> message]

NewError500 ==
  Error500("an unexpected error occured, please contact an administrator")

Error500StatusCode(e) == 500

NilError == [type |-> "nil", Message |-> ""]

\* ----------------------------------------------------------- Parse
\* Request bodies, by what each decoder makes of them.
\*   read: ioutil.ReadAll / r.ParseForm can read the body
\*   json, xml: json.Unmarshal / xml.Unmarshal accept the bytes
\*   form: r.ParseForm accepts the bytes
Bodies ==
  { [name |-> "json", read |-> TRUE, json |-> TRUE, xml |-> FALSE, form |-> TRUE],
    [name |-> "xml", read |-> TRUE, json |-> FALSE, xml |-> TRUE, form |-> TRUE],
    [name |-> "form", read |-> TRUE, json |-> FALSE, xml |-> FALSE, form |-> TRUE],
    [name |-> "garbage", read |-> TRUE, json |-> FALSE, xml |-> FALSE, form |-> FALSE],
    [name |-> "unreadable", read |-> FALSE, json |-> FALSE, xml |-> FALSE, form |-> FALSE] }

\* Decode targets v handed to Parse.
Targets == {"ptrStruct", "nilPtr", "nonPtr"}

\* json.Unmarshal / xml.Unmarshal: an error text, "" for success.  Both
\* reject a target that is not a non-nil pointer.
Unmarshal(kind, body, v) ==
  IF v # "ptrStruct" THEN kind \o ": Unmarshal(non-pointer)"
  ELSE IF body[kind] THEN ""
  ELSE kind \o ": syntax error"

\* parseForm lines 316-321: the pointer check on the target.
parseFormCheck(v) ==
  IF v # "ptrStruct" THEN "Cannot parse form to non-pointer types" ELSE ""

\* Parse lines 343-350: the decode format.
ParseInputFormat_NoFallback(r) ==
  getFormat(r, "Content-Type").format

ParseInputFormat(r) ==
  LET outputFormat == getFormat(r, "Accept").format
      in == getFormat(r, "Content-Type")
  IN IF in.found = FALSE THEN outputFormat ELSE in.format

\* Parse lines 340-378.  In the JSON and XML branches `chunk, err := ...`
\* declares a new err local to the branch; `err = json.Unmarshal(...)`
\* assigns that inner variable, and the function-level err tested at line
\* 374 keeps its zero value nil.  Only the FORM branch assigns the
\* function-level err.
Parse(r, body, v) ==
  LET inputFormat == ParseInputFormat(r)
  IN IF inputFormat = formatJSON THEN
       IF ~body.read
         THEN [inputFormat |-> inputFormat, err |-> Error500("failed to read body"),
               decoded |-> "none", innerErr |-> "read"]
         ELSE LET innerErr == Unmarshal("json", body, v)
                  err == ""
              IN [inputFormat |-> inputFormat,
                  err |-> IF err # "" THEN Error500("failed to parse body: " \o err)
                          ELSE NilError,
                  decoded |-> IF innerErr = "" THEN "json" ELSE "none",
                  innerErr |-> innerErr]
     ELSE IF inputFormat = formatXML THEN
       IF ~body.read
         THEN [inputFormat |-> inputFormat, err |-> Error500("failed to read body"),
               decoded |-> "none", innerErr |-> "read"]
         ELSE LET innerErr == Unmarshal("xml", body, v)
                  err == ""
              IN [inputFormat |-> inputFormat,
                  err |-> IF err # "" THEN Error500("failed to parse body: " \o err)
                          ELSE NilError,
                  decoded |-> IF innerErr = "" THEN "xml" ELSE "none",
                  innerErr |-> innerErr]
     ELSE IF inputFormat = formatFORM THEN
       LET err1 == IF body.read /\ body.form THEN "" ELSE "invalid URL escape"
           err == IF err1 = "" THEN parseFormCheck(v) ELSE err1
       IN [inputFormat |-> inputFormat,
           err |-> IF err # "" THEN Error500("failed to parse body: " \o err)
                   ELSE NilError,
           decoded |-> IF err = "" THEN "form" ELSE "none",
           innerErr |-> ""]
     ELSE [inputFormat |-> inputFormat,
           err |-> [type |-> "error", Message |-> "unknown output format"],
           decoded |-> "none", innerErr |-> ""]

NoParse == [inputFormat |-> formatJSON, err |-> NilError, decoded |-> "none", innerErr |-> ""]

\* ----------------------------------------------------------- parseForm
\* Longest list of values held under one form field.
MaxFormVals == 2

\* Field names of decode targets and names of form fields.  Go exports a
\* field whose name starts with an upper-case letter.
FieldNames == {"Status", "status", "Code"}
FormKeys == {"status", "Status", "code"}
FormValues == {"x", "y"}

\* strings.ToLower on the names above.
ToLower(s) ==
  CASE s \in {"Status", "status"} -> "status"
    [] s \in {"Code", "code"} -> "code"

IsExported(name) == name \in {"Status", "Code"}

\* r.PostForm: a map from some form field names to lists of values.
Forms ==
  UNION { [K -> SeqsUpTo(FormValues, MaxFormVals)] : K \in SUBSET FormKeys }

\* Struct types: field name -> kind of the field.
StructTypes == UNION { [F -> {"string", "int"}] : F \in SUBSET FieldNames }

\* The value a field holds before decoding.
OldValue(kind) == IF kind = "string" THEN "old" ELSE "0"

NoStruct == [f \in {} |-> ""]

\* Decode targets v of parseForm:
\*   "nilIface"      the nil interface value
\*   "nonPtr"        a struct passed by value
\*   "nilPtr"        a nil *struct
\*   "ptrNonStruct"  a non-nil pointer to a string
\*   "ptrStruct"     a non-nil pointer to a struct of type `type`
FormTargets ==
  { [kind |-> k, type |-> NoStruct, fields |-> NoStruct] :
      k \in {"nilIface", "nonPtr", "nilPtr", "ptrNonStruct"} }
  \cup
  { [kind |-> "ptrStruct", type |-> t,
     fields |-> [f \in DOMAIN t |-> OldValue(t[f])]] : t \in StructTypes }

\* `for k, v := range form` visits the keys of the map in an order the
\* runtime picks.
Orders(K) ==
  { o \in [1..Cardinality(K) -> K] : \A i, j \in DOMAIN o : o[i] = o[j] => i = j }

\* reflect.Value.FieldByNameFunc with the matcher of lines 327-331: the
\* field whose lower-cased name equals the lower-cased key; fields that
\* match together cancel each other and the zero Value comes back.
FieldMatches(type, k) == { f \in DOMAIN type : ToLower(k) = ToLower(f) }

\* parseForm lines 323-335: the loop, over the keys in the given order.
\* panic is "" unless reflect panics: FieldByNameFunc on a Value that is not
\* a struct, SetString on a field obtained through an unexported name.
RECURSIVE parseFormRange(_, _, _, _)
parseFormRange(order, form, v, fields) ==
  IF order = <<>> THEN [err |-> "", panic |-> "", fields |-> fields]
  ELSE LET k == Head(order)
           vals == form[k]
       IN IF Len(vals) = 0 THEN parseFormRange(Tail(order), form, v, fields)
          ELSE IF v.kind # "ptrStruct"
            THEN [err |-> "", fields |-> fields,
                  panic |-> "reflect: call of FieldByNameFunc on string Value"]
          ELSE IF Cardinality(FieldMatches(v.type, k)) # 1
            THEN parseFormRange(Tail(order), form, v, fields)
          ELSE LET f == CHOOSE g \in FieldMatches(v.type, k) : TRUE
               IN IF v.type[f] # "string"
                    THEN parseFormRange(Tail(order), form, v, fields)
                  ELSE IF ~IsExported(f)
                    THEN [err |-> "", fields |-> fields,
                          panic |-> "reflect: SetString using unexported field"]
                  ELSE parseFormRange(Tail(order), form, v,
                                      [fields EXCEPT ![f] = vals[1]])

\* parseForm lines 316-337.  reflect.ValueOf(nil).Type() panics at line 318.
parseForm(form, v, order) ==
  IF v.kind = "nilIface"
    THEN [err |-> "", fields |-> v.fields,
          panic |-> "reflect: call of Type on zero Value"]
  ELSE IF v.kind \in {"nonPtr", "nilPtr"}
    THEN [err |-> "Cannot parse form to non-pointer types", panic |-> "",
          fields |-> v.fields]
  ELSE parseFormRange(order, form, v, v.fields)

\* Parse lines 366-377 once r.ParseForm() has succeeded with r.PostForm = form.
ParseFormBranch(form, v, order) ==
  LET res == parseForm(form, v, order)
  IN [err |-> IF res.panic = "" /\ res.err # ""
                THEN Error500("failed to parse body: " \o res.err)
                ELSE NilError,
      panic |-> res.panic,
      fields |-> res.fields]

NoFormResult == [err |-> NilError, panic |-> "", fields |-> NoStruct]

\* =================================================================
\* Response values and errors a controller can return
\* =================================================================

\* What json.Marshal / xml.Marshal make of a value:
\*   "ok"      both encoders accept it
\*   "xmlfail" xml.Marshal rejects it (a map, for instance), json accepts
\*   "fail"    both reject it (a channel or func field)
Marshalability == {"ok", "xmlfail", "fail"}

CookieNames == {"sid", "lang"}
CookieValues == {"", "v1"}

\* CookieSetter.Cookies: the nil map before the first SetCookie/UnsetCookie,
\* afterwards a map from the names set so far to their values.
EmptyMap == [n \in {} |-> ""]
NilMap == [isNil |-> TRUE, m |-> EmptyMap]

\* Success values: each capability is a method set the value has or has not.
\*   hasStatus   StatusCode() int          (code)
\*   hasLocation Location() string         (location)
\*   hasCookies  GetCookies() map          (the CookieSetter built so far)
\*   hasRaw      ContentType() + Data()    (ctype, data)
StatusCodes == {0, 302}
Locations == {"", "/next"}

ValueShapes ==
  { [hasStatus |-> hs, code |-> c, hasLocation |-> hl, location |-> l,
     hasCookies |-> hc, hasRaw |-> hr, ctype |-> "text/plain", data |-> "hello",
     payload |-> "ok", marshal |-> m] :
       hs \in BOOLEAN, c \in StatusCodes, hl \in BOOLEAN, l \in Locations,
       hc \in BOOLEAN, hr \in BOOLEAN, m \in Marshalability }

\* A value without a capability carries that capability's zero values.
Values ==
  { v \in ValueShapes :
      /\ (~v.hasStatus => v.code = 0)
      /\ (~v.hasLocation => v.location = "") }

\* Errors: hasStatus says whether the error has StatusCode() int.
ErrorMessages == {"oops", "db password rejected"}

Errors ==
  { [hasStatus |-> TRUE, code |-> 403, payload |-> msg, marshal |-> m] :
      msg \in ErrorMessages, m \in Marshalability }
  \cup
  { [hasStatus |-> FALSE, code |-> 0, payload |-> msg, marshal |-> m] :
      msg \in ErrorMessages, m \in Marshalability }

\* NewError500() as the data handed to output.
Error500Data == [payload |-> NewError500.Message, marshal |-> "ok"]

\* =================================================================
\* The response writer
\* =================================================================

\* http.ResponseWriter as the handler sees it: the header map, the status
\* lines written by WriteHeader and the chunks written by Write, in order.
NewWriter ==
  [contentType |-> <<>>, location |-> <<>>, cookies |-> {},
   statusLines |-> <<>>, bodies |-> <<>>]

\* json.Marshal / xml.Marshal: the bytes are the value's payload in the
\* encoder's syntax; err is TRUE when the encoder rejects the value.
Marshal(format, data) ==
  IF format = formatJSON
    THEN [chunk |-> <<"json", data.payload>>, err |-> data.marshal = "fail"]
    ELSE [chunk |-> <<"xml", data.payload>>, err |-> data.marshal # "ok"]

\* outputContentType lines 395-402.
outputContentType_FixedType(w, code, data, format) ==
  [w EXCEPT !.contentType = <<"aplication/json">>,
            !.statusLines = Append(@, code),
            !.bodies = Append(@, <<"raw", data>>)]

outputContentType(w, code, data, format) ==
  [w EXCEPT !.contentType = <<format>>,
            !.statusLines = Append(@, code),
            !.bodies = Append(@, <<"raw", data>>)]

\* output lines 404-424.  Returns the writer and whether an error came back.
output(w, code, data, format) ==
  IF format = formatJSON \/ format = formatXML THEN
    LET m == Marshal(format, data)
        w1 == [w EXCEPT !.contentType =
                 <<IF format = formatJSON THEN "aplication/json" ELSE "aplication/xml">>]
    IN IF m.err THEN [w |-> w1, err |-> "marshal"]
       ELSE [w |-> [w1 EXCEPT !.statusLines = Append(@, code),
                              !.bodies = Append(@, m.chunk)],
             err |-> ""]
  ELSE [w |-> w, err |-> "unknown output format"]

\* =================================================================
\* The dispatch adapter
\* =================================================================

\* handler lines 449-456: the status code and location of a success value.
\* Resp is the interface { StatusCode() int; Location() string }.
IsResp(resp) == resp.hasStatus /\ resp.hasLocation

handlerStatusCode(resp) ==
  IF IsResp(resp) /\ resp.code # 0 THEN resp.code ELSE 200

handlerLocation_AnyCode(resp) ==
  IF IsResp(resp) THEN resp.location ELSE ""

handlerLocation(resp) ==
  IF IsResp(resp) /\ resp.code # 0 THEN resp.location ELSE ""

\* handler lines 461-475: the cookie handed to http.SetCookie for one entry.
handlerCookie_AlwaysSet(name, value) ==
  [Name |-> name, Value |-> value, Path |-> "/", MaxAge |-> 24 * 60 * 60]

handlerCookie(name, value) ==
  IF Len(value) = 0
    THEN [Name |-> name, Value |-> "nil", Path |-> "/", MaxAge |-> -1]
    ELSE [Name |-> name, Value |-> value, Path |-> "/", MaxAge |-> 24 * 60 * 60]

\* handler lines 457-478: every entry of GetCookies() gives one cookie.
handlerCookies(resp, cookies) ==
  IF resp.hasCookies /\ ~cookies.isNil
    THEN { handlerCookie(name, cookies.m[name]) : name \in DOMAIN cookies.m }
    ELSE {}

VARIABLES
  pc,         \* position of the adapter: "idle", "controller", "returned", "written"
  r,          \* the request's headers
  outputFormat, \* handler's local outputFormat
  cs,         \* the CookieSetter.Cookies map the controller builds
  hist,       \* per cookie name, the calls made on it: "", "set", "unset", "set-unset"
  ret,        \* what the controller returned: [isErr, val]
  calls,      \* number of controller invocations
  outputs,    \* formats handed to output, in order
  w,          \* the response writer
  ppc,        \* position of the Parse caller: "none", "call", "done"
  pr,         \* the request Parse is given
  pbody,      \* the request body
  pv,         \* the decode target
  presult,    \* what Parse returned and did
  fpc,        \* position of the FORM decode: "none", "call", "done"
  fform,      \* r.PostForm: form field name -> list of values
  fv,         \* the decode target of the FORM decode, with its fields
  fresult     \* what the FORM decode returned and left in the target

dvars == <<pc, r, outputFormat, cs, hist, ret, calls, outputs, w>>
pvars == <<ppc, pr, pbody, pv, presult>>
fvars == <<fpc, fform, fv, fresult>>
vars == <<pc, r, outputFormat, cs, hist, ret, calls, outputs, w,
          ppc, pr, pbody, pv, presult, fpc, fform, fv, fresult>>

Requests == [{"Accept", "Content-Type"} -> Headers]
AcceptRequests == { q \in Requests : q["Content-Type"] = NoHeader }
NoRequest == [f \in {"Accept", "Content-Type"} |-> NoHeader]
NoReturn == [isErr |-> FALSE, val |-> [payload |-> "none"]]

FormIdle ==
  /\ fpc = "none"
  /\ fform = [k \in {} |-> <<>>]
  /\ fv = [kind |-> "nilPtr", type |-> NoStruct, fields |-> NoStruct]
  /\ fresult = NoFormResult

DispatchIdle ==
  /\ pc = "idle"
  /\ r = NoRequest
  /\ outputFormat = formatJSON
  /\ cs = NilMap
  /\ hist = [n \in CookieNames |-> ""]
  /\ ret = NoReturn
  /\ calls = 0
  /\ outputs = <<>>
  /\ w = NewWriter

ParseIdle ==
  /\ ppc = "none"
  /\ pr = NoRequest
  /\ pbody \in {b \in Bodies : b.name = "json"}
  /\ pv = "ptrStruct"
  /\ presult = NoParse

\* ------------------------------------------------------------ Spec
Init == DispatchIdle /\ ParseIdle /\ FormIdle

\* handler lines 427-429: a request arrives, the encode format is read
\* from Accept and the controller is called.
Receive(req) ==
  /\ pc = "idle"
  /\ r' = req
  /\ outputFormat' = getFormat(req, "Accept").format
  /\ calls' = calls + 1
  /\ pc' = "controller"
  /\ UNCHANGED <<cs, hist, ret, outputs, w, pvars, fvars>>

\* CookieSetter.SetCookie lines 260-265, called by the controller.
SetCookie(name, value) ==
  /\ pc = "controller"
  /\ cs' = [isNil |-> FALSE,
            m |-> [n \in DOMAIN cs.m \cup {name} |->
                     IF n = name THEN value ELSE cs.m[n]]]
  /\ hist' = [hist EXCEPT ![name] = "set"]
  /\ UNCHANGED <<pc, r, outputFormat, ret, calls, outputs, w, pvars, fvars>>

\* CookieSetter.UnsetCookie lines 267-272, called by the controller.
UnsetCookie(name) ==
  /\ pc = "controller"
  /\ cs' = [isNil |-> FALSE,
            m |-> [n \in DOMAIN cs.m \cup {name} |->
                     IF n = name THEN "" ELSE cs.m[n]]]
  /\ hist' = [hist EXCEPT ![name] =
                 IF hist[name] \in {"set", "set-unset"} THEN "set-unset" ELSE "unset"]
  /\ UNCHANGED <<pc, r, outputFormat, ret, calls, outputs, w, pvars, fvars>>

\* The controller returns (value, nil).
ReturnValue(v) ==
  /\ pc = "controller"
  /\ ret' = [isErr |-> FALSE, val |-> v]
  /\ pc' = "returned"
  /\ UNCHANGED <<r, outputFormat, cs, hist, calls, outputs, w, pvars, fvars>>

\* The controller returns (nil, err).
ReturnError(e) ==
  /\ pc = "controller"
  /\ ret' = [isErr |-> TRUE, val |-> e]
  /\ pc' = "returned"
  /\ UNCHANGED <<r, outputFormat, cs, hist, calls, outputs, w, pvars, fvars>>

\* handler lines 430-448: the error path.
RespondError ==
  /\ pc = "returned"
  /\ ret.isErr
  /\ LET err == ret.val
         o == IF err.hasStatus
                THEN output(w, err.code, err, outputFormat)
                ELSE output(w, 500, Error500Data, outputFormat)
     IN w' = o.w
  /\ outputs' = Append(outputs, outputFormat)
  /\ pc' = "written"
  /\ UNCHANGED <<r, outputFormat, cs, hist, ret, calls, pvars, fvars>>

\* handler lines 449-490: the success path.
RespondValue ==
  /\ pc = "returned"
  /\ ~ret.isErr
  /\ LET resp == ret.val
         statusCode == handlerStatusCode(resp)
         location == handlerLocation(resp)
         w1 == [w EXCEPT !.cookies = @ \cup handlerCookies(resp, cs)]
         w2 == IF location # "" THEN [w1 EXCEPT !.location = Append(@, location)]
               ELSE w1
     IN IF resp.hasRaw
          THEN /\ w' = outputContentType(w2, statusCode, resp.data, resp.ctype)
               /\ outputs' = outputs
          ELSE /\ w' = output(w2, statusCode, resp, outputFormat).w
               /\ outputs' = Append(outputs, outputFormat)
  /\ pc' = "written"
  /\ UNCHANGED <<r, outputFormat, cs, hist, ret, calls, pvars, fvars>>

Next ==
  \/ \E req \in AcceptRequests : Receive(req)
  \/ \E n \in CookieNames, v \in CookieValues : SetCookie(n, v)
  \/ \E n \in CookieNames : UnsetCookie(n)
  \/ \E v \in Values : ReturnValue(v)
  \/ \E e \in Errors : ReturnError(e)
  \/ RespondError
  \/ RespondValue

Spec == Init /\ [][Next]_vars

\* ------------------------------------------------------------ SpecParse
InitParse ==
  /\ DispatchIdle
  /\ FormIdle
  /\ ppc = "call"
  /\ pr \in Requests
  /\ pbody \in Bodies
  /\ pv \in Targets
  /\ presult = NoParse

ParseCall ==
  /\ ppc = "call"
  /\ presult' = Parse(pr, pbody, pv)
  /\ ppc' = "done"
  /\ UNCHANGED <<pr, pbody, pv, dvars, fvars>>

NextParse == ParseCall

SpecParse == InitParse /\ [][NextParse]_vars

\* ------------------------------------------------------------ SpecForm
InitForm ==
  /\ DispatchIdle
  /\ ParseIdle
  /\ fpc = "call"
  /\ fform \in Forms
  /\ fv \in FormTargets
  /\ fresult = NoFormResult

\* Parse with the FORM decode format, on a body r.ParseForm() accepts.
ParseFormCall ==
  /\ fpc = "call"
  /\ \E order \in Orders(DOMAIN fform) :
       fresult' = ParseFormBranch(fform, fv, order)
  /\ fpc' = "done"
  /\ UNCHANGED <<fform, fv, dvars, pvars>>

NextForm == ParseFormCall

SpecForm == InitForm /\ [][NextForm]_vars

\* =================================================================
\* Properties of the dispatch adapter (Spec)
\* =================================================================

Written == pc = "written"
WroteError == Written /\ ret.isErr
WroteValue == Written /\ ~ret.isErr

\* C1: a controller error that has a status code S is answered with status
\* exactly S and with the serialized error itself as the body.
C1_StructuredErrorStatusAndBody ==
  (WroteError /\ ret.val.hasStatus) =>
    /\ w.statusLines = <<ret.val.code>>
    /\ \E enc \in {"json", "xml"} : w.bodies = << <<enc, ret.val.payload>> >>

\* C2: a controller error without a status code is answered with status
\* exactly 500 and the fixed Error500 message, whatever the error says.
C2_GenericErrorIs500 ==
  (WroteError /\ ~ret.val.hasStatus) =>
    /\ w.statusLines = <<500>>
    /\ \E enc \in {"json", "xml"} : w.bodies = << <<enc, NewError500.Message>> >>

\* C3: a success value is answered with its own status code whenever it has
\* a status-code capability returning nonzero, whatever other capabilities
\* it has, and with 200 when the capability is absent or returns zero.
C3_SuccessStatus ==
  WroteValue =>
    w.statusLines =
      <<IF ret.val.hasStatus /\ ret.val.code # 0 THEN ret.val.code ELSE 200>>

\* C5: every handled request invokes the controller once and writes exactly
\* one status line, one Content-Type and one body.
C5_ExactlyOneWrite ==
  Written =>
    /\ calls = 1
    /\ Len(w.statusLines) = 1
    /\ Len(w.contentType) = 1
    /\ Len(w.bodies) = 1

\* C6: the format derived from Accept and handed to the encoder is JSON or
\* XML, and it is JSON when Accept holds neither application/json nor
\* application/xml.
C6_EncodeFormatNeverForm ==
  \A i \in DOMAIN outputs :
    /\ outputs[i] \in {formatJSON, formatXML}
    /\ (~\E j \in DOMAIN r["Accept"].vals :
           r["Accept"].vals[j] \in {"application/json", "application/xml"})
         => outputs[i] = formatJSON

\* C8: a success value with the raw content-type capability is answered
\* with exactly its bytes and its content-type, whatever Accept holds, and
\* the JSON/XML encoder is not applied.
C8_RawBypass ==
  (WroteValue /\ ret.val.hasRaw) =>
    /\ w.bodies = << <<"raw", ret.val.data>> >>
    /\ w.contentType = <<ret.val.ctype>>
    /\ outputs = <<>>

C8_Witness ==
  /\ WroteValue /\ ret.val.hasRaw
  /\ r["Accept"].vals = <<"application/xml">>
  /\ outputFormat = formatXML
  /\ w.bodies = << <<"raw", "hello">> >>
  /\ w.contentType = <<"text/plain">>

\* C9: the response has a Location header, holding the value's location,
\* exactly when the value has a nonzero status code and a non-empty
\* location; a zero status code never gives a Location header.
C9_LocationIff ==
  WroteValue =>
    IF /\ ret.val.hasStatus /\ ret.val.code # 0
       /\ ret.val.hasLocation /\ ret.val.location # ""
      THEN w.location = <<ret.val.location>>
      ELSE w.location = <<>>

C9_Witness ==
  /\ WroteValue
  /\ ret.val.code = 302
  /\ ret.val.location = "/next"
  /\ w.location = <<"/next">>
  /\ w.statusLines = <<302>>

\* C10: a value with a cookie map gives exactly one cookie per entry, all
\* with path "/": MaxAge -1 for an empty value, the value itself with
\* MaxAge 86400 otherwise; a name unset after being set gives the deletion
\* cookie.
C10_CookiePerEntry ==
  (WroteValue /\ ret.val.hasCookies) =>
    /\ Cardinality(w.cookies) = Cardinality(DOMAIN cs.m)
    /\ \A n \in DOMAIN cs.m :
         \E c \in w.cookies :
           /\ c.Name = n
           /\ c.Path = "/"
           /\ \A d \in w.cookies : d.Name = n => d = c
           /\ (cs.m[n] = "" => c.MaxAge = -1)
           /\ (cs.m[n] # "" => c.Value = cs.m[n] /\ c.MaxAge = 86400)
           /\ (hist[n] = "set-unset" => c.MaxAge = -1)

C10_Witness ==
  /\ WroteValue /\ ret.val.hasCookies
  /\ hist["sid"] = "set-unset"
  /\ [Name |-> "sid", Value |-> "nil", Path |-> "/", MaxAge |-> -1] \in w.cookies
  /\ [Name |-> "lang", Value |-> "v1", Path |-> "/", MaxAge |-> 86400] \in w.cookies

\* =================================================================
\* Properties of Parse (SpecParse)
\* =================================================================

Parsed == ppc = "done"

\* The body is readable but the unmarshaler of the selected format rejects it.
Malformed(format, body) ==
  /\ body.read
  /\ \/ format = formatJSON /\ ~body.json
     \/ format = formatXML /\ ~body.xml
     \/ format = formatFORM /\ ~body.form

\* C4: for a body malformed for the selected decode format, Parse returns
\* an Error500 ("failed to parse body: ..."), never nil.
C4_MalformedBodyIs500 ==
  (Parsed /\ Malformed(presult.inputFormat, pbody)) =>
    /\ presult.err.type = "Error500"
    /\ presult.err # NilError

\* The format a MIME string names, as the claim lists them.
Recognised ==
  {"application/json", "application/xml", "application/x-www-form-urlencoded"}

MimeFormat(s) ==
  CASE s = "application/json" -> formatJSON
    [] s = "application/xml" -> formatXML
    [] s = "application/x-www-form-urlencoded" -> formatFORM

HasRecognised(h) == h.ok /\ \E i \in DOMAIN h.vals : h.vals[i] \in Recognised

FirstRecognised(h) ==
  LET i == CHOOSE k \in DOMAIN h.vals :
             /\ h.vals[k] \in Recognised
             /\ \A j \in 1..(k - 1) : h.vals[j] \notin Recognised
  IN h.vals[i]

\* C7: the decode format is the first recognised Content-Type value; with
\* none, the format of the first recognised Accept value; with neither,
\* JSON.  An unrecognised Content-Type changes nothing about the outcome.
C7_DecodeFormat ==
  Parsed =>
    /\ presult.inputFormat =
         IF HasRecognised(pr["Content-Type"])
           THEN MimeFormat(FirstRecognised(pr["Content-Type"]))
         ELSE IF HasRecognised(pr["Accept"])
           THEN MimeFormat(FirstRecognised(pr["Accept"]))
         ELSE formatJSON
    /\ ~HasRecognised(pr["Content-Type"]) =>
         presult = Parse([pr EXCEPT !["Content-Type"] = NoHeader], pbody, pv)

C7_Witness ==
  /\ Parsed
  /\ pr["Content-Type"].vals = <<"Application/JSON">>
  /\ pr["Accept"].vals = <<"application/xml">>
  /\ presult.inputFormat = formatXML
  /\ presult.err = NilError

\* =================================================================
\* Properties of the FORM decode (SpecForm)
\* =================================================================

FormDecoded == fpc = "done"

\* The form fields that name field f ignoring case and hold a value.
FormFieldsFor(f) ==
  { k \in DOMAIN fform : ToLower(k) = ToLower(f) /\ Len(fform[k]) > 0 }

\* C11: decoding a form into a pointer to a record sets every string field
\* whose name equals a form field name ignoring case to that form field's
\* first value, leaves every other field unchanged and returns no error;
\* for any other target it returns an error, without a panic and without
\* touching the target.
C11_FormDecode ==
  FormDecoded =>
    /\ fresult.panic = ""
    /\ IF fv.kind = "ptrStruct"
         THEN /\ fresult.err = NilError
              /\ \A f \in DOMAIN fv.type :
                   IF fv.type[f] = "string" /\ FormFieldsFor(f) # {}
                     THEN \E k \in FormFieldsFor(f) : fresult.fields[f] = fform[k][1]
                     ELSE fresult.fields[f] = fv.fields[f]
         ELSE /\ fresult.err # NilError
              /\ fresult.fields = fv.fields

====
